---- MODULE Spec2Model ----
(***************************************************************************)
(* A model of models.py, the persistence layer of the job board: the       *)
(* schema that init_db lays out and the accessor functions for users,      *)
(* jobs, applications, tokens and ratings, over one SQLite database file.  *)
(*                                                                         *)
(* The database file is the variables db (committed rows and the           *)
(* AUTOINCREMENT counters) and schema (the columns of each table).  Every  *)
(* accessor opens its own connection; conns counts the connections that    *)
(* are open while no call is running, and wlock says who holds the         *)
(* engine's write lock.  Python's sqlite3 opens a transaction implicitly    *)
(* before the first INSERT/UPDATE/DELETE of a connection and keeps it      *)
(* until commit(); a connection that is dropped uncommitted is rolled      *)
(* back.                                                                   *)
(*                                                                         *)
(* Python's None is the empty tuple, a value v that may be None is <<v>>.  *)
(***************************************************************************)
EXTENDS Integers, Sequences, FiniteSets, TLC

VARIABLES
    db,        \* committed content of the file: one set of rows per table, and seq
    schema,    \* table name -> set of column names ({} : no such table)
    location,  \* what the database location held before the first call
    inited,    \* init_db calls completed on this location: 0, 1, or 2 for more
    now,       \* the clock read by datetime.utcnow(), in ticks
    issued,    \* how many tokens secrets.token_hex has produced
    yielded,   \* token value -> number of consume_token calls that returned its email
    conns,     \* connections left open by calls that have ended
    wlock,     \* holder of the write lock: "free", "left" (a left-open connection) or a caller
    ret,       \* the last completed call of the sequential caller
    proc,      \* concurrent callers: the call each is in and its locals
    pending    \* uncommitted image of db inside the lock holder's transaction

vars == <<db, schema, location, inited, now, issued, yielded, conns, wlock, ret, proc, pending>>

(***************************************************************************)
(* Bounds of the model.                                                    *)
(***************************************************************************)
TicksPerSec == 2
MaxTime == 5
MaxTokens == 1
MaxConns == 2
MaxRows == 3
MaxSupplied == 2

None == <<>>
Some(x) == <<x>>

Emails == {"a@b.com", "c@d.com"}
Purposes == {"verify", "reset"}
TTLs == {-1, 1}
TokenValues == 1..MaxTokens

Tables == {"users", "jobs", "applications", "ratings", "tokens"}

(***************************************************************************)
(* Column sets of the CREATE TABLE statements.                             *)
(***************************************************************************)
UsersCols == {"id", "email", "password_hash", "role", "is_banned", "banned_until", "created_at"}
JobsCols == {"id", "employer_id", "title", "description", "location_text", "lat", "lng",
             "salary", "tags", "created_at"}
ApplicationsCols == {"id", "job_id", "user_id", "cover_letter", "resume_text", "created_at"}
RatingsCols == {"id", "target_type", "target_id", "rater_id", "rating", "comment", "created_at"}
TokensCols == {"id", "token", "email", "purpose", "expires_at", "created_at"}
\* the columns the user accessors name in their INSERT and SELECT statements
UserAccessorCols == UsersCols \cup {"username", "first_name", "last_name", "verified"}
ApplicationPathCols == {"cover_letter_path", "resume_path"}

CreateTableCols(t) ==
    CASE t = "users" -> UsersCols
      [] t = "jobs" -> JobsCols
      [] t = "applications" -> ApplicationsCols
      [] t = "ratings" -> RatingsCols
      [] t = "tokens" -> TokensCols

NoSchema == [t \in Tables |-> {}]
\* the layout of a deployment whose users table carries the columns the accessors use
FullSchema ==
    [t \in Tables |->
        CASE t = "users" -> UserAccessorCols
          [] t = "applications" -> ApplicationsCols \cup ApplicationPathCols
          [] OTHER -> CreateTableCols(t)]

EmptyDb ==
    [users |-> {}, jobs |-> {}, applications |-> {}, ratings |-> {}, tokens |-> {},
     seq |-> [t \in Tables |-> 0]]

\* a statement prepares only if its table exists and has every column it names
Prepares(sch, t, cols) == sch[t] # {} /\ cols \subseteq sch[t]

(***************************************************************************)
(* datetime.isoformat / datetime.fromisoformat.  A time is a tick count;   *)
(* isoformat writes the whole seconds and, only when it is not zero, the   *)
(* fraction.  The text is the tuple <<seconds>> or <<seconds, fraction>>.  *)
(***************************************************************************)
isoformat(t) ==
    IF t % TicksPerSec = 0
    THEN <<t \div TicksPerSec>>
    ELSE <<t \div TicksPerSec, t % TicksPerSec>>

WellFormedIso(s) ==
    /\ Len(s) \in {1, 2}
    /\ s[1] \in Int
    /\ Len(s) = 2 => s[2] \in 0..(TicksPerSec - 1)

fromisoformat(s) == s[1] * TicksPerSec + (IF Len(s) = 2 THEN s[2] ELSE 0)

\* SQLite's comparison of two TEXT values holding such times (a prefix sorts first)
TextLeq(a, b) ==
    \/ a[1] < b[1]
    \/ a[1] = b[1] /\ Len(a) = 1
    \/ a[1] = b[1] /\ Len(a) = 2 /\ Len(b) = 2 /\ a[2] <= b[2]

\* CURRENT_TIMESTAMP: the time to the second
CurrentTimestamp(t) == <<t \div TicksPerSec>>

(***************************************************************************)
(* How a call ends.  A call that returns has closed its connection.  A     *)
(* call that ends in an exception skips its conn.close(): the connection   *)
(* stays open, and when the exception came after the implicit BEGIN had    *)
(* taken the write lock (a constraint failure) the lock stays with it.     *)
(***************************************************************************)
Call(op, raised, val, wrote) == [op |-> op, raised |-> raised, val |-> val, wrote |-> wrote]

\* the number of rows by which two images of the file differ
RowTables == {"users", "jobs", "applications", "ratings", "tokens"}
RECURSIVE SumOver(_, _, _)
SumOver(ts, d, e) ==
    IF ts = {} THEN 0
    ELSE LET t == CHOOSE x \in ts : TRUE
         IN Cardinality(d[t] \ e[t]) + Cardinality(e[t] \ d[t]) + SumOver(ts \ {t}, d, e)
RowsChanged(d, e) == SumOver(RowTables, d, e)

\* conn.close() and return: wrote is the number of rows the call changed in the file
Returns(op, val) ==
    /\ ret' = Call(op, "", val, RowsChanged(db, db'))
    /\ UNCHANGED <<conns, wlock>>

Raises(op, exc, holdsLock) ==
    /\ ret' = Call(op, exc, None, RowsChanged(db, db'))
    /\ conns' = conns + 1
    /\ wlock' = IF holdsLock THEN "left" ELSE wlock

\* a statement that writes cannot start while another connection holds the write lock
Locked == wlock # "free"

\* every connection of a call is counted against the caller's limit of open handles
CanOpen == conns < MaxConns

\* rows ever inserted into the four entity tables: the sum of their AUTOINCREMENT counters
RowsInserted(d) ==
    d.seq["users"] + d.seq["jobs"] + d.seq["applications"] + d.seq["ratings"]

\* the ids that rows of any one table can carry
Ids == 1..MaxRows

Procs == {"p1", "p2"}
\* the frame of a call in progress: the accessor, the statement it is at, its arguments,
\* the row it fetched, the job ids it still loops over, and the value it will return
Frame(op, pc, args, row, ids, val) ==
    [op |-> op, pc |-> pc, args |-> args, row |-> row, ids |-> ids, val |-> val]
IdleProc == Frame("idle", "idle", <<>>, None, {}, None)

(***************************************************************************)
(* Tokens                                                                  *)
(***************************************************************************)
TokenRow(id, token, email, purpose, expires_at, created_at) ==
    [id |-> id, token |-> token, email |-> email, purpose |-> purpose,
     expires_at |-> expires_at, created_at |-> created_at]

\* secrets.token_hex(24): 192 random bits, modelled as a value never drawn before
token_hex(n) == n + 1

\* SELECT ... FROM tokens WHERE token = ? AND purpose = ?, then fetchone()
SelectToken(d, token, purpose) ==
    LET hit == {r \in d.tokens : r.token = token /\ r.purpose = purpose}
    IN IF hit = {} THEN None ELSE Some(CHOOSE r \in hit : TRUE)

\* a DELETE that matches no row
DeleteToken_NoRow(d, token) == d

\* DELETE FROM tokens WHERE token = ?
DeleteToken(d, token) == [d EXCEPT !.tokens = {r \in d.tokens : r.token # token}]

\* an expiry test that never finds a token expired
ExpiryOf_NeverExpired(expires_at, t) ==
    IF expires_at = <<>> \/ WellFormedIso(expires_at) THEN "live" ELSE "malformed"

\* the expiry test shared by consume_token and get_token_info:
\* "expired", "malformed" (fromisoformat raised) or "live"
ExpiryOf(expires_at, t) ==
    IF expires_at = <<>> THEN "live"
    ELSE IF ~WellFormedIso(expires_at) THEN "malformed"
    ELSE IF fromisoformat(expires_at) < t THEN "expired"
    ELSE "live"

create_token(email, purpose, expires_seconds) ==
    LET token == token_hex(issued)
        expires_at == isoformat(now + expires_seconds * TicksPerSec)
        made == schema["tokens"] = {}
        sch == IF made THEN [schema EXCEPT !["tokens"] = TokensCols] ELSE schema
        id == db.seq["tokens"] + 1
        row == TokenRow(id, token, email, purpose, expires_at, CurrentTimestamp(now))
    IN /\ CanOpen
       /\ issued < MaxTokens
       /\ issued' = issued + 1
       /\ IF Locked
          THEN /\ UNCHANGED <<db, schema>>
               /\ Raises("create_token", "OperationalError", FALSE)
          ELSE IF ~Prepares(sch, "tokens", {"token", "email", "purpose", "expires_at"})
          THEN /\ schema' = sch /\ UNCHANGED db
               /\ Raises("create_token", "OperationalError", FALSE)
          ELSE IF \E r \in db.tokens : r.token = token
          THEN /\ schema' = sch /\ UNCHANGED db
               /\ Raises("create_token", "IntegrityError", TRUE)
          ELSE /\ db' = [db EXCEPT !.tokens = @ \cup {row}, !.seq["tokens"] = id]
               /\ schema' = sch
               /\ Returns("create_token", Some(token))
       /\ UNCHANGED <<location, inited, now, yielded, proc, pending>>

consume_token(token, purpose) ==
    LET found == SelectToken(db, token, purpose)
    IN /\ CanOpen
       /\ UNCHANGED schema
       /\ IF ~Prepares(schema, "tokens", {"email", "expires_at", "token", "purpose"})
          THEN /\ UNCHANGED <<db, yielded>>
               /\ Raises("consume_token", "OperationalError", FALSE)
          ELSE IF found = None
          THEN /\ UNCHANGED <<db, yielded>>
               /\ Returns("consume_token", None)
          ELSE IF Locked
          THEN /\ UNCHANGED <<db, yielded>>
               /\ Raises("consume_token", "OperationalError", FALSE)
          ELSE /\ db' = DeleteToken(db, token)
               /\ IF ExpiryOf(found[1].expires_at, now) = "live"
                  THEN /\ Returns("consume_token", Some(found[1].email))
                       /\ yielded' = [yielded EXCEPT ![token] = @ + 1]
                  ELSE /\ Returns("consume_token", None)
                       /\ UNCHANGED yielded
       /\ UNCHANGED <<location, inited, now, issued, proc, pending>>

\* the row mapping that SELECT token, email, purpose, expires_at, created_at returns
TokenInfo(r) ==
    [token |-> r.token, email |-> r.email, purpose |-> r.purpose,
     expires_at |-> r.expires_at, created_at |-> r.created_at]

get_token_info(token, purpose) ==
    LET found == SelectToken(db, token, purpose)
    IN /\ CanOpen
       /\ UNCHANGED <<db, schema>>
       /\ IF ~Prepares(schema, "tokens", TokensCols \ {"id"})
          THEN Raises("get_token_info", "OperationalError", FALSE)
          ELSE IF found = None
          THEN Returns("get_token_info", None)
          ELSE IF ExpiryOf(found[1].expires_at, now) # "live"
          THEN Returns("get_token_info", None)
          ELSE Returns("get_token_info", Some(TokenInfo(found[1])))
       /\ UNCHANGED <<location, inited, now, issued, yielded, proc, pending>>

purge_expired_tokens ==
    /\ CanOpen
    /\ UNCHANGED schema
    /\ IF ~Prepares(schema, "tokens", {"expires_at"}) \/ Locked
       THEN /\ UNCHANGED db
            /\ Raises("purge_expired_tokens", "OperationalError", FALSE)
       ELSE /\ db' = [db EXCEPT !.tokens =
                        {r \in @ : ~(r.expires_at # <<>> /\ TextLeq(r.expires_at, isoformat(now)))}]
            /\ Returns("purge_expired_tokens", None)
    /\ UNCHANGED <<location, inited, now, issued, yielded, proc, pending>>

\* time passes between calls
Tick ==
    /\ now < MaxTime
    /\ now' = now + 1
    /\ UNCHANGED <<db, schema, location, inited, issued, yielded, conns, wlock, ret, proc, pending>>

(***************************************************************************)
(* Schema manager                                                          *)
(***************************************************************************)
\* DROP TABLE IF EXISTS t; CREATE TABLE t (...), which resets the columns of t
ensure_table_Recreate(sch, t) == [sch EXCEPT ![t] = CreateTableCols(t)]

\* CREATE TABLE IF NOT EXISTS t (...); commit
ensure_table(sch, t) == IF sch[t] = {} THEN [sch EXCEPT ![t] = CreateTableCols(t)] ELSE sch

\* PRAGMA table_info, then ALTER TABLE t ADD COLUMN c only when c is not listed
add_column_if_missing(sch, t, c) == IF c \notin sch[t] THEN [sch EXCEPT ![t] = @ \cup {c}] ELSE sch

\* the five _ensure_table calls of init_db, in the order of the source
EnsureAll(sch) ==
    ensure_table(ensure_table(ensure_table(ensure_table(ensure_table(
        sch, "users"), "jobs"), "applications"), "ratings"), "tokens")

init_db ==
    LET ensured == EnsureAll(schema)
        patched == add_column_if_missing(
                       add_column_if_missing(ensured, "applications", "cover_letter_path"),
                       "applications", "resume_path")
    IN /\ CanOpen
       /\ UNCHANGED db
       /\ IF Locked /\ ensured # schema
          THEN \* the first CREATE TABLE that has to write raises "database is locked"
               /\ UNCHANGED <<schema, inited>>
               /\ Raises("init_db", "OperationalError", FALSE)
          ELSE IF Locked
          THEN \* ALTER TABLE raises OperationalError, which init_db logs and swallows
               /\ UNCHANGED schema
               /\ inited' = IF inited = 0 THEN 1 ELSE 2
               /\ Returns("init_db", None)
          ELSE /\ schema' = patched
               /\ inited' = IF inited = 0 THEN 1 ELSE 2
               /\ Returns("init_db", None)
       /\ UNCHANGED <<location, now, issued, yielded, proc, pending>>

\* the runtime finalizes the connection objects that ended calls left open: each is
\* closed, which rolls back its open transaction and gives up its lock
connection_dealloc ==
    /\ conns > 0
    /\ conns' = 0
    /\ wlock' = IF wlock = "left" THEN "free" ELSE wlock
    /\ UNCHANGED <<db, schema, location, inited, now, issued, yielded, ret, proc, pending>>

(***************************************************************************)
(* Users                                                                   *)
(***************************************************************************)
UserRow(id, email, password_hash, role, username, first_name, last_name, verified, created_at) ==
    [id |-> id, email |-> email, password_hash |-> password_hash, role |-> role,
     is_banned |-> 0, banned_until |-> None, created_at |-> created_at,
     username |-> username, first_name |-> first_name, last_name |-> last_name,
     verified |-> verified]

\* the columns get_user_by_id selects
UserByIdCols == UserAccessorCols \ {"password_hash"}

\* the mapping _row_factory builds for SELECT id, email, role, is_banned, banned_until,
\* created_at, username, first_name, last_name, verified
UserMapping(r) ==
    [id |-> r.id, email |-> r.email, role |-> r.role, is_banned |-> r.is_banned,
     banned_until |-> r.banned_until, created_at |-> r.created_at, username |-> r.username,
     first_name |-> r.first_name, last_name |-> r.last_name, verified |-> r.verified]

SelectUserById(d, id) ==
    LET hit == {r \in d.users : r.id = id}
    IN IF hit = {} THEN None ELSE Some(UserMapping(CHOOSE r \in hit : TRUE))

create_user(email, password_hash, role, username, first_name, last_name, verified) ==
    LET id == db.seq["users"] + 1
        row == UserRow(id, email, password_hash, role, username, first_name, last_name,
                       verified, isoformat(now))
        d2 == [db EXCEPT !.users = @ \cup {row}, !.seq["users"] = id]
    IN /\ CanOpen
       /\ RowsInserted(db) < MaxRows
       /\ UNCHANGED schema
       /\ IF ~Prepares(schema, "users", {"email", "password_hash", "role", "username",
                                         "first_name", "last_name", "verified", "created_at"})
          THEN /\ UNCHANGED db
               /\ Raises("create_user", "OperationalError", FALSE)
          ELSE IF Locked
          THEN /\ UNCHANGED db
               /\ Raises("create_user", "OperationalError", FALSE)
          ELSE IF \E r \in db.users : r.email = email
          THEN \* UNIQUE constraint failed: the INSERT's transaction is left open
               /\ UNCHANGED db
               /\ Raises("create_user", "IntegrityError", TRUE)
          ELSE /\ db' = d2
               /\ IF Prepares(schema, "users", UserByIdCols)
                  THEN Returns("create_user", SelectUserById(d2, id))
                  ELSE Raises("create_user", "OperationalError", FALSE)
       /\ UNCHANGED <<location, inited, now, issued, yielded, proc, pending>>

get_user_by_id(id) ==
    /\ CanOpen
    /\ UNCHANGED <<db, schema>>
    /\ IF Prepares(schema, "users", UserByIdCols)
       THEN Returns("get_user_by_id", SelectUserById(db, id))
       ELSE Raises("get_user_by_id", "OperationalError", FALSE)
    /\ UNCHANGED <<location, inited, now, issued, yielded, proc, pending>>

(***************************************************************************)
(* Applications                                                            *)
(***************************************************************************)
ApplicationRow(id, job_id, user_id, cover_letter, resume_text, cover_letter_path, resume_path, created_at) ==
    [id |-> id, job_id |-> job_id, user_id |-> user_id, cover_letter |-> cover_letter,
     resume_text |-> resume_text, cover_letter_path |-> cover_letter_path,
     resume_path |-> resume_path, created_at |-> created_at]

create_application(job_id, user_id, cover_letter, resume_text, cover_letter_path, resume_path) ==
    LET id == db.seq["applications"] + 1
        row == ApplicationRow(id, job_id, user_id, cover_letter, resume_text,
                              cover_letter_path, resume_path, isoformat(now))
    IN /\ CanOpen
       /\ RowsInserted(db) < MaxRows
       /\ UNCHANGED schema
       /\ IF ~Prepares(schema, "applications",
                       {"job_id", "user_id", "cover_letter", "resume_text",
                        "cover_letter_path", "resume_path", "created_at"})
             \/ Locked
          THEN /\ UNCHANGED db
               /\ Raises("create_application", "OperationalError", FALSE)
          ELSE /\ db' = [db EXCEPT !.applications = @ \cup {row}, !.seq["applications"] = id]
               /\ Returns("create_application", Some([id |-> id, job_id |-> job_id, user_id |-> user_id,
                                cover_letter_path |-> cover_letter_path,
                                resume_path |-> resume_path]))
       /\ UNCHANGED <<location, inited, now, issued, yielded, proc, pending>>

(***************************************************************************)
(* Jobs and ratings                                                        *)
(***************************************************************************)
JobRow(id, employer_id, title, description, location_text, lat, lng, salary, tags, created_at) ==
    [id |-> id, employer_id |-> employer_id, title |-> title, description |-> description,
     location_text |-> location_text, lat |-> lat, lng |-> lng, salary |-> salary,
     tags |-> tags, created_at |-> created_at]

RatingRow(id, target_type, target_id, rater_id, rating, comment, created_at) ==
    [id |-> id, target_type |-> target_type, target_id |-> target_id, rater_id |-> rater_id,
     rating |-> rating, comment |-> comment, created_at |-> created_at]

\* SELECT ... FROM jobs WHERE id = ?, then fetchone()
SelectJobById(d, id) ==
    LET hit == {r \in d.jobs : r.id = id}
    IN IF hit = {} THEN None ELSE Some(CHOOSE r \in hit : TRUE)

get_job_by_id(job_id) ==
    /\ CanOpen
    /\ UNCHANGED <<db, schema>>
    /\ IF Prepares(schema, "jobs", JobsCols)
       THEN Returns("get_job_by_id", SelectJobById(db, job_id))
       ELSE Raises("get_job_by_id", "OperationalError", FALSE)
    /\ UNCHANGED <<location, inited, now, issued, yielded, proc, pending>>

create_job(employer_id, title, description, location_text, lat, lng, salary, tags) ==
    LET id == db.seq["jobs"] + 1
        row == JobRow(id, employer_id, Some(title), Some(description), location_text, lat, lng,
                      salary, tags, isoformat(now))
        d2 == [db EXCEPT !.jobs = @ \cup {row}, !.seq["jobs"] = id]
    IN /\ CanOpen
       /\ RowsInserted(db) < MaxRows
       /\ UNCHANGED schema
       /\ IF ~Prepares(schema, "jobs", JobsCols \ {"id"}) \/ Locked
          THEN /\ UNCHANGED db
               /\ Raises("create_job", "OperationalError", FALSE)
          ELSE /\ db' = d2
               /\ Returns("create_job", SelectJobById(d2, id))
       /\ UNCHANGED <<location, inited, now, issued, yielded, proc, pending>>

create_rating(target_type, target_id, rater_id, rating, comment) ==
    LET id == db.seq["ratings"] + 1
        row == RatingRow(id, target_type, target_id, rater_id, rating, comment, isoformat(now))
    IN /\ CanOpen
       /\ RowsInserted(db) < MaxRows
       /\ UNCHANGED schema
       /\ IF ~Prepares(schema, "ratings", RatingsCols \ {"id"}) \/ Locked
          THEN /\ UNCHANGED db
               /\ Raises("create_rating", "OperationalError", FALSE)
          ELSE IF ~(rating >= 1 /\ rating <= 5)
          THEN \* CHECK constraint failed: the INSERT's transaction is left open
               /\ UNCHANGED db
               /\ Raises("create_rating", "IntegrityError", TRUE)
          ELSE /\ db' = [db EXCEPT !.ratings = @ \cup {row}, !.seq["ratings"] = id]
               /\ Returns("create_rating", Some([id |-> id, target_type |-> target_type, target_id |-> target_id,
                                rater_id |-> rater_id, rating |-> rating]))
       /\ UNCHANGED <<location, inited, now, issued, yielded, proc, pending>>

\* "if x:", which also skips the empty string and zero
Supplied_Truthy(x) == x # None /\ x[1] \notin {"", "0.0"}

\* "x is not None"
Supplied(x) == x # None

\* the fields and params lists that update_job builds, as <<column, value>> pairs in the
\* order of the source
SetClauses(title, description, location_text, lat, lng, salary, tags) ==
    SelectSeq(<< <<"title", title>>, <<"description", description>>,
                 <<"location_text", location_text>>, <<"lat", lat>>, <<"lng", lng>>,
                 <<"salary", salary>>, <<"tags", tags>> >>,
              LAMBDA f : Supplied(f[2]))

\* SET c1 = ?, c2 = ?, ... applied to one row
RECURSIVE SetColumns(_, _)
SetColumns(row, clauses) ==
    IF clauses = <<>> THEN row
    ELSE SetColumns([row EXCEPT ![Head(clauses)[1]] = Head(clauses)[2]], Tail(clauses))

\* UPDATE jobs SET ... WHERE id = ?
UpdateJobs(d, clauses, job_id) ==
    [d EXCEPT !.jobs = {IF j.id = job_id THEN SetColumns(j, clauses) ELSE j : j \in @}]

update_job(job_id, title, description, location_text, lat, lng, salary, tags) ==
    LET clauses == SetClauses(title, description, location_text, lat, lng, salary, tags)
        d2 == UpdateJobs(db, clauses, job_id)
    IN /\ CanOpen
       /\ UNCHANGED schema
       /\ IF clauses = <<>>
          THEN \* if not fields: conn.close(); return get_job_by_id(db_path, job_id)
               /\ UNCHANGED db
               /\ IF Prepares(schema, "jobs", JobsCols)
                  THEN Returns("update_job", SelectJobById(db, job_id))
                  ELSE Raises("update_job", "OperationalError", FALSE)
          ELSE IF ~Prepares(schema, "jobs", JobsCols) \/ Locked
          THEN /\ UNCHANGED db
               /\ Raises("update_job", "OperationalError", FALSE)
          ELSE /\ db' = d2
               /\ Returns("update_job", SelectJobById(d2, job_id))
       /\ UNCHANGED <<location, inited, now, issued, yielded, proc, pending>>

(***************************************************************************)
(* The DELETE and SELECT statements of the cascades, as functions of the   *)
(* image of the file that the executing connection sees.                   *)
(***************************************************************************)
\* DELETE FROM applications WHERE user_id = ?
DelApplicationsOfUser(d, u) ==
    [d EXCEPT !.applications = {a \in @ : a.user_id # u}]

\* DELETE FROM ratings WHERE rater_id = ?, without the clause for ratings of the user
DelRatingsOfUser_RaterOnly(d, u) ==
    [d EXCEPT !.ratings = {r \in @ : r.rater_id # u}]

\* DELETE FROM ratings WHERE rater_id = ? OR (target_type='user' AND target_id=?)
DelRatingsOfUser(d, u) ==
    [d EXCEPT !.ratings =
        {r \in @ : ~(r.rater_id = u \/ (r.target_type = "user" /\ r.target_id = u))}]

\* SELECT id FROM jobs WHERE employer_id = ?
SelectJobIds(d, u) == {j.id : j \in {x \in d.jobs : x.employer_id = u}}

\* a cascade that leaves the applications to the posting in place
DelApplicationsOfJob_Kept(d, j) == d

\* DELETE FROM applications WHERE job_id = ?
DelApplicationsOfJob(d, j) ==
    [d EXCEPT !.applications = {a \in @ : a.job_id # j}]

\* DELETE FROM ratings WHERE target_type='job' AND target_id = ?
DelRatingsOfJob(d, j) ==
    [d EXCEPT !.ratings = {r \in @ : ~(r.target_type = "job" /\ r.target_id = j)}]

\* DELETE FROM jobs WHERE employer_id = ?
DelJobsOfEmployer(d, u) == [d EXCEPT !.jobs = {j \in @ : j.employer_id # u}]

\* DELETE FROM users WHERE id = ?
DelUser(d, u) == [d EXCEPT !.users = {x \in @ : x.id # u}]

\* DELETE FROM jobs WHERE id = ?
DelJob(d, j) == [d EXCEPT !.jobs = {x \in @ : x.id # j}]

\* DELETE FROM ratings WHERE id = ?
DelRating(d, r) == [d EXCEPT !.ratings = {x \in @ : x.id # r}]

\* for jid in job_ids: the two DELETEs of the loop body
RECURSIVE ForJobIds(_, _)
ForJobIds(d, ids) ==
    IF ids = {} THEN d
    ELSE LET jid == CHOOSE x \in ids : \A y \in ids : x <= y
         IN ForJobIds(DelRatingsOfJob(DelApplicationsOfJob(d, jid), jid), ids \ {jid})

\* the statements of delete_user between the first execute and the commit
DeleteUserStatements(d, u) ==
    LET d1 == DelApplicationsOfUser(d, u)
        d2 == DelRatingsOfUser(d1, u)
        d3 == ForJobIds(d2, SelectJobIds(d2, u))
        d4 == DelJobsOfEmployer(d3, u)
    IN DelUser(d4, u)

\* the statements of delete_job between the first execute and the commit
DeleteJobStatements(d, j) == DelJob(DelRatingsOfJob(DelApplicationsOfJob(d, j), j), j)

CascadeTablesExist(sch) ==
    /\ Prepares(sch, "applications", {"user_id", "job_id"})
    /\ Prepares(sch, "ratings", {"rater_id", "target_type", "target_id"})
    /\ Prepares(sch, "jobs", {"id", "employer_id"})
    /\ Prepares(sch, "users", {"id"})

delete_user(user_id) ==
    /\ CanOpen
    /\ UNCHANGED schema
    /\ IF ~Prepares(schema, "applications", {"user_id"}) \/ Locked
       THEN /\ UNCHANGED db
            /\ Raises("delete_user", "OperationalError", FALSE)
       ELSE IF ~CascadeTablesExist(schema)
       THEN \* a later statement names a missing table: its transaction stays open
            /\ UNCHANGED db
            /\ Raises("delete_user", "OperationalError", TRUE)
       ELSE /\ db' = DeleteUserStatements(db, user_id)
            /\ Returns("delete_user", Some(TRUE))
    /\ UNCHANGED <<location, inited, now, issued, yielded, proc, pending>>

delete_job(job_id) ==
    /\ CanOpen
    /\ UNCHANGED schema
    /\ IF ~Prepares(schema, "applications", {"job_id"}) \/ Locked
       THEN /\ UNCHANGED db
            /\ Raises("delete_job", "OperationalError", FALSE)
       ELSE IF ~CascadeTablesExist(schema)
       THEN /\ UNCHANGED db
            /\ Raises("delete_job", "OperationalError", TRUE)
       ELSE /\ db' = DeleteJobStatements(db, job_id)
            /\ Returns("delete_job", Some(TRUE))
    /\ UNCHANGED <<location, inited, now, issued, yielded, proc, pending>>

delete_rating(rating_id) ==
    /\ CanOpen
    /\ UNCHANGED schema
    /\ IF ~Prepares(schema, "ratings", {"id"}) \/ Locked
       THEN /\ UNCHANGED db
            /\ Raises("delete_rating", "OperationalError", FALSE)
       ELSE /\ db' = DelRating(db, rating_id)
            /\ Returns("delete_rating", Some(TRUE))
    /\ UNCHANGED <<location, inited, now, issued, yielded, proc, pending>>

(***************************************************************************)
(* Calls of several processes, one statement at a time.  Each process has  *)
(* its own connection; a statement reads the committed file unless its     *)
(* connection has a transaction open, and the engine lets one connection   *)
(* at a time hold the write lock.                                          *)
(***************************************************************************)
\* autocommit, the value of isolation_level that would commit every statement by itself
isolation_level_None == None

\* sqlite3.connect(db_path) without an isolation_level argument: the connection opens a
\* transaction before its first INSERT, UPDATE or DELETE and holds it until commit()
isolation_level == Some("")

\* the image of the file that the statements of process p read
Image(p) == IF wlock = p THEN pending ELSE db

\* another connection holds the write lock: the statement waits, and raises
\* "database is locked" when the busy timeout runs out
Busy(p) == wlock \notin {"free", p}

\* cur.execute(DELETE ...) by p, turning its image into d2
Execute(p, d2) ==
    IF isolation_level = None
    THEN /\ db' = d2
         /\ UNCHANGED <<wlock, pending>>
    ELSE /\ wlock' = p
         /\ pending' = d2
         /\ UNCHANGED db

\* conn.commit()
Commit(p) ==
    IF wlock = p
    THEN /\ db' = pending
         /\ wlock' = "free"
         /\ pending' = EmptyDb
    ELSE UNCHANGED <<db, wlock, pending>>

\* the call of p ends with val; its connection was closed
ProcReturns(p, val) ==
    /\ ret' = Call(proc[p].op, "", val, RowsChanged(db, db'))
    /\ proc' = [proc EXCEPT ![p] = IdleProc]
    /\ UNCHANGED conns

\* the call of p ends with an exception; its connection stays open, and with it the
\* transaction it had begun
ProcRaises(p, op, exc) ==
    /\ ret' = Call(op, exc, None, 0)
    /\ proc' = [proc EXCEPT ![p] = IdleProc]
    /\ conns' = conns + 1
    /\ wlock' = IF wlock = p THEN "left" ELSE wlock
    /\ pending' = IF wlock = p THEN EmptyDb ELSE pending
    /\ UNCHANGED db

\* p moves on to the statement at pc
Goto(p, pc) ==
    /\ proc' = [proc EXCEPT ![p].pc = pc]
    /\ UNCHANGED <<ret, conns>>

\* consume_token up to "row = cur.fetchone()" and the early return
consume_token_select(p, token, purpose) ==
    LET found == SelectToken(db, token, purpose)
    IN /\ proc[p].op = "idle"
       /\ CanOpen
       /\ IF ~Prepares(schema, "tokens", {"email", "expires_at", "token", "purpose"})
          THEN ProcRaises(p, "consume_token", "OperationalError")
          ELSE IF found = None
          THEN /\ ret' = Call("consume_token", "", None, 0)
               /\ UNCHANGED <<proc, conns, db, wlock, pending>>
          ELSE /\ proc' = [proc EXCEPT ![p] =
                              Frame("consume_token", "delete", <<token, purpose>>, found, {}, None)]
               /\ UNCHANGED <<ret, conns, db, wlock, pending>>
       /\ UNCHANGED <<schema, location, inited, now, issued, yielded>>

\* the expiry test on the fetched row and the DELETE of whichever branch it selects
consume_token_delete(p) ==
    LET f == proc[p]
        live == ExpiryOf(f.row[1].expires_at, now) = "live"
    IN /\ f.op = "consume_token"
       /\ f.pc = "delete"
       /\ IF Busy(p)
          THEN ProcRaises(p, "consume_token", "OperationalError")
          ELSE /\ Execute(p, DeleteToken(Image(p), f.args[1]))
               /\ proc' = [proc EXCEPT ![p].pc = "commit",
                                       ![p].val = IF live THEN Some(f.row[1].email) ELSE None]
               /\ UNCHANGED <<ret, conns>>
       /\ UNCHANGED <<schema, location, inited, now, issued, yielded>>

\* conn.commit(); conn.close(); return
consume_token_commit(p) ==
    /\ proc[p].op = "consume_token"
    /\ proc[p].pc = "commit"
    /\ Commit(p)
    /\ ProcReturns(p, proc[p].val)
    /\ yielded' = IF proc[p].val = None THEN yielded
                  ELSE [yielded EXCEPT ![proc[p].args[1]] = @ + 1]
    /\ UNCHANGED <<schema, location, inited, now, issued>>

\* delete_user up to its first DELETE
delete_user_begin(p, user_id) ==
    /\ proc[p].op = "idle"
    /\ CanOpen
    /\ IF ~Prepares(schema, "applications", {"user_id"}) \/ Busy(p)
       THEN ProcRaises(p, "delete_user", "OperationalError")
       ELSE /\ Execute(p, DelApplicationsOfUser(Image(p), user_id))
            /\ proc' = [proc EXCEPT ![p] =
                           Frame("delete_user", "del_ratings", <<user_id>>, None, {}, None)]
            /\ UNCHANGED <<ret, conns>>
    /\ UNCHANGED <<schema, location, inited, now, issued, yielded>>

\* the next statement of delete_user
delete_user_step(p) ==
    LET f == proc[p]
        u == f.args[1]
        d == Image(p)
        jid == CHOOSE x \in f.ids : \A y \in f.ids : x <= y
    IN /\ f.op = "delete_user"
       /\ f.pc # "commit"
       /\ IF ~CascadeTablesExist(schema)
          THEN ProcRaises(p, "delete_user", "OperationalError")
          ELSE CASE f.pc = "del_ratings" ->
                      /\ Execute(p, DelRatingsOfUser(d, u))
                      /\ Goto(p, "select_jobs")
                 [] f.pc = "select_jobs" ->
                      /\ proc' = [proc EXCEPT
                                     ![p].ids = SelectJobIds(d, u),
                                     ![p].pc = IF SelectJobIds(d, u) = {} THEN "del_jobs"
                                               ELSE "loop_applications"]
                      /\ UNCHANGED <<db, wlock, pending, ret, conns>>
                 [] f.pc = "loop_applications" ->
                      /\ Execute(p, DelApplicationsOfJob(d, jid))
                      /\ Goto(p, "loop_ratings")
                 [] f.pc = "loop_ratings" ->
                      /\ Execute(p, DelRatingsOfJob(d, jid))
                      /\ proc' = [proc EXCEPT
                                     ![p].ids = @ \ {jid},
                                     ![p].pc = IF f.ids = {jid} THEN "del_jobs"
                                               ELSE "loop_applications"]
                      /\ UNCHANGED <<ret, conns>>
                 [] f.pc = "del_jobs" ->
                      /\ Execute(p, DelJobsOfEmployer(d, u))
                      /\ Goto(p, "del_user")
                 [] f.pc = "del_user" ->
                      /\ Execute(p, DelUser(d, u))
                      /\ Goto(p, "commit")
       /\ UNCHANGED <<schema, location, inited, now, issued, yielded>>

\* conn.commit(); conn.close(); return True
delete_user_commit(p) ==
    /\ proc[p].op = "delete_user"
    /\ proc[p].pc = "commit"
    /\ Commit(p)
    /\ ProcReturns(p, Some(TRUE))
    /\ UNCHANGED <<schema, location, inited, now, issued, yielded>>

\* delete_job up to its first DELETE
delete_job_begin(p, job_id) ==
    /\ proc[p].op = "idle"
    /\ CanOpen
    /\ IF ~Prepares(schema, "applications", {"job_id"}) \/ Busy(p)
       THEN ProcRaises(p, "delete_job", "OperationalError")
       ELSE /\ Execute(p, DelApplicationsOfJob(Image(p), job_id))
            /\ proc' = [proc EXCEPT ![p] =
                           Frame("delete_job", "del_ratings", <<job_id>>, None, {}, None)]
            /\ UNCHANGED <<ret, conns>>
    /\ UNCHANGED <<schema, location, inited, now, issued, yielded>>

\* the next statement of delete_job
delete_job_step(p) ==
    LET f == proc[p]
        j == f.args[1]
        d == Image(p)
    IN /\ f.op = "delete_job"
       /\ f.pc # "commit"
       /\ IF ~CascadeTablesExist(schema)
          THEN ProcRaises(p, "delete_job", "OperationalError")
          ELSE CASE f.pc = "del_ratings" ->
                      /\ Execute(p, DelRatingsOfJob(d, j))
                      /\ Goto(p, "del_job")
                 [] f.pc = "del_job" ->
                      /\ Execute(p, DelJob(d, j))
                      /\ Goto(p, "commit")
       /\ UNCHANGED <<schema, location, inited, now, issued, yielded>>

\* conn.commit(); conn.close(); return True
delete_job_commit(p) ==
    /\ proc[p].op = "delete_job"
    /\ proc[p].pc = "commit"
    /\ Commit(p)
    /\ ProcReturns(p, Some(TRUE))
    /\ UNCHANGED <<schema, location, inited, now, issued, yielded>>

\* the process running a call dies inside it: the engine rolls back the transaction its
\* connection had open, from the journal, before anyone reads the file again
Crash(p) ==
    /\ proc[p].op # "idle"
    /\ proc' = [proc EXCEPT ![p] = IdleProc]
    /\ wlock' = IF wlock = p THEN "free" ELSE wlock
    /\ pending' = IF wlock = p THEN EmptyDb ELSE pending
    /\ UNCHANGED <<db, schema, location, inited, now, issued, yielded, conns, ret>>

(***************************************************************************)
(* Initial states: what the database location holds before the first call. *)
(***************************************************************************)
InitWith(loc, sch, d) ==
    /\ db = d
    /\ schema = sch
    /\ location = loc
    /\ inited = 0
    /\ now = TicksPerSec
    /\ issued = 0
    /\ yielded = [t \in TokenValues |-> 0]
    /\ conns = 0
    /\ wlock = "free"
    /\ ret = Call("none", "", None, 0)
    /\ proc = [p \in Procs |-> IdleProc]
    /\ pending = EmptyDb

(***************************************************************************)
(* SpecTokens: one caller using the token accessors on a deployed store.   *)
(***************************************************************************)
InitTokens == InitWith("deployed", FullSchema, EmptyDb)

NextTokens ==
    \/ \E e \in Emails, p \in Purposes, ttl \in TTLs : create_token(e, p, ttl)
    \/ \E t \in TokenValues, p \in Purposes : consume_token(t, p)
    \/ \E t \in TokenValues, p \in Purposes : get_token_info(t, p)
    \/ purge_expired_tokens
    \/ Tick

SpecTokens == InitTokens /\ [][NextTokens]_vars

\* a stored, well-formed expiry that lies before the time t of the call
ExpiryPassed(r, t) ==
    /\ Len(r.expires_at) \in {1, 2}
    /\ r.expires_at[1] * TicksPerSec + (IF Len(r.expires_at) = 2 THEN r.expires_at[2] ELSE 0) < t

RowsOfToken(t) == {r \in db.tokens : r.token = t}

\* C1: once consume_token has returned a token's email, every later consume_token and
\* get_token_info call with that token, whatever the purpose, returns None, and no
\* token value yields its email more than once in a run.
C1_TokenSingleUse ==
    [][\A t \in TokenValues, p \in Purposes :
          /\ (consume_token(t, p) /\ yielded[t] > 0) => (ret'.raised = "" /\ ret'.val = None)
          /\ (get_token_info(t, p) /\ yielded[t] > 0) => (ret'.raised = "" /\ ret'.val = None)
          /\ yielded'[t] <= 1]_vars

\* every token has been consumed once, and a later consume_token call has returned None
C1_Witness ==
    /\ ret.op = "consume_token"
    /\ ret.raised = ""
    /\ ret.val = None
    /\ \A t \in TokenValues : yielded[t] = 1

\* C3 as stated: on a token whose stored expiry has passed, consume_token and
\* get_token_info return None, consume_token removes the token row and get_token_info
\* leaves the tokens table unchanged.
C3_AsStated ==
    [][\A t \in TokenValues, p \in Purposes :
          LET rows == RowsOfToken(t)
              passed == rows # {} /\ \A r \in rows : ExpiryPassed(r, now)
          IN /\ (consume_token(t, p) /\ passed) =>
                    (ret'.val = None /\ db'.tokens = db.tokens \ rows)
             /\ (get_token_info(t, p) /\ passed) =>
                    (ret'.val = None /\ db'.tokens = db.tokens)]_vars

\* C3 amended: on a token whose stored expiry has passed, consume_token and
\* get_token_info return None; consume_token removes the token row when it is called with
\* the purpose the token was created for and leaves the table unchanged otherwise;
\* get_token_info leaves the tokens table unchanged.
C3_TokenExpiry ==
    [][\A t \in TokenValues, p \in Purposes :
          LET rows == RowsOfToken(t)
              passed == rows # {} /\ \A r \in rows : ExpiryPassed(r, now)
          IN /\ (consume_token(t, p) /\ passed) =>
                    /\ ret'.raised = "" /\ ret'.val = None
                    /\ db'.tokens = IF \E r \in rows : r.purpose = p
                                    THEN db.tokens \ rows
                                    ELSE db.tokens
             /\ (get_token_info(t, p) /\ passed) =>
                    (ret'.raised = "" /\ ret'.val = None /\ db' = db)]_vars

\* consume_token has returned None and has removed a row: the row of an expired token
C3_Witness ==
    /\ ret.op = "consume_token"
    /\ ret.raised = ""
    /\ ret.val = None
    /\ ret.wrote = 1

(***************************************************************************)
(* SpecSchema: one caller on a location that is either empty or holds the  *)
(* file of an older deployment: its users table has the columns the user   *)
(* accessors name, its applications table may lack either path column, and *)
(* its ratings and tokens tables may not exist yet.                        *)
(***************************************************************************)
OlderSchema(pathCols, withLater) ==
    [t \in Tables |->
        CASE t = "users" -> UserAccessorCols
          [] t = "applications" -> ApplicationsCols \cup pathCols
          [] t \in {"ratings", "tokens"} -> IF withLater THEN CreateTableCols(t) ELSE {}
          [] OTHER -> CreateTableCols(t)]

\* the rows an older deployment left: one employer and one application to a posting
OlderDb ==
    [EmptyDb EXCEPT
        !.users = {UserRow(1, "a@b.com", "h1", "employer", None, None, None, 0, isoformat(0))},
        !.applications = {ApplicationRow(1, 1, 1, "", "", None, None, isoformat(0))},
        !.seq = [t \in Tables |-> IF t \in {"users", "applications"} THEN 1 ELSE 0]]

\* what create_user is called with besides the email and the role
Profiles == {<<None, None, None, 0>>, <<Some("ann"), Some("Ann"), Some("Lee"), 1>>}
Roles == {"candidate", "employer"}
Paths == {None, Some("cv.pdf")}

InitSchema ==
    \/ InitWith("fresh", NoSchema, EmptyDb)
    \/ \E pc \in SUBSET ApplicationPathCols, later \in BOOLEAN :
          InitWith("older", OlderSchema(pc, later), OlderDb)

NextSchema ==
    \/ init_db
    \/ \E e \in Emails, r \in Roles, pf \in Profiles :
          create_user(e, "h1", r, pf[1], pf[2], pf[3], pf[4])
    \/ \E id \in Ids : get_user_by_id(id)
    \/ \E c \in Paths, r \in Paths : create_application(1, 1, "", "", c, r)
    \/ connection_dealloc

SpecSchema == InitSchema /\ [][NextSchema]_vars

\* C5: on a database that init_db created at a fresh location, create_user with an email
\* not yet stored succeeds, and the row it returns (get_user_by_id on the generated id)
\* carries the email, role, username, first_name, last_name and verified passed in.
C5_UserRoundTrip ==
    [][\A e \in Emails, r \in Roles, pf \in Profiles :
          (/\ create_user(e, "h1", r, pf[1], pf[2], pf[3], pf[4])
           /\ location = "fresh"
           /\ inited > 0
           /\ \A u \in db.users : u.email # e)
          => /\ ret'.raised = ""
             /\ ret'.val # None
             /\ ret'.val = SelectUserById(db', ret'.val[1].id)
             /\ ret'.val[1].email = e
             /\ ret'.val[1].role = r
             /\ ret'.val[1].username = pf[1]
             /\ ret'.val[1].first_name = pf[2]
             /\ ret'.val[1].last_name = pf[3]
             /\ ret'.val[1].verified = pf[4]]_vars

\* C6: whenever no accessor call is in progress, no connection is open: every call,
\* however it ends (return, early return, engine error), has closed its connection.
C6_NoLeakedConnections == conns = 0

(***************************************************************************)
(* SpecInit: init_db called again and again on such a location while       *)
(* applications are stored and two other processes delete postings         *)
(* statement by statement.                                                 *)
(***************************************************************************)
NextInit ==
    \/ init_db
    \/ \E c \in Paths, r \in Paths : create_application(1, 1, "", "", c, r)
    \/ \E p \in Procs : delete_job_begin(p, 1)
    \/ \E p \in Procs : delete_job_step(p)
    \/ \E p \in Procs : delete_job_commit(p)
    \/ connection_dealloc

SpecInit == InitSchema /\ [][NextInit]_vars

UserIds == Ids
JobIds == Ids
RatingIds == Ids
TargetTypes == {"user", "job"}

InitStore == InitWith("deployed", FullSchema, EmptyDb)

Deletes ==
    \/ \E u \in UserIds : delete_user(u)
    \/ \E j \in JobIds : delete_job(j)
    \/ \E r \in RatingIds : delete_rating(r)
    \/ connection_dealloc

\* the ids a create call may name, whether or not such a row exists
Named == {1, 2}

Next ==
    \/ \E e \in Emails : create_user(e, "h1", "employer", None, None, None, 0)
    \/ \E u \in Named : create_job(u, "t1", "d1", None, None, None, Some(""), None)
    \/ \E j \in Named, u \in Named : create_application(j, u, "", "", None, None)
    \/ \E tt \in TargetTypes, id \in Named, u \in Named : create_rating(tt, id, u, 3, "")
    \/ Deletes

Spec == InitStore /\ [][Next]_vars

ExistingUsers == {u.id : u \in db.users}
ExistingJobs == {j.id : j \in db.jobs}

NextRef ==
    \/ \E e \in Emails : create_user(e, "h1", "employer", None, None, None, 0)
    \/ \E u \in ExistingUsers : create_job(u, "t1", "d1", None, None, None, Some(""), None)
    \/ \E j \in ExistingJobs, u \in ExistingUsers : create_application(j, u, "", "", None, None)
    \/ \E u \in ExistingUsers :
          \/ \E id \in ExistingUsers : create_rating("user", id, u, 3, "")
          \/ \E id \in ExistingJobs : create_rating("job", id, u, 3, "")
    \/ Deletes

SpecRef == InitStore /\ [][NextRef]_vars

\* the postings that user u owns in the image d
OwnedJobs(d, u) == {j.id : j \in {x \in d.jobs : x.employer_id = u}}

\* C4: after delete_user(u) has returned there is no users row with id u, no jobs row
\* with employer_id u, no applications row of u or of a posting that u owned, and no
\* ratings row written by u, targeting ('user', u) or targeting ('job', j) for a posting
\* j that u owned.
C4_CascadeDeleteUser ==
    [][\A u \in Ids :
          (ret'.op = "delete_user" /\ ret'.raised = "" /\ delete_user(u)) =>
              /\ \A x \in db'.users : x.id # u
              /\ \A j \in db'.jobs : j.employer_id # u
              /\ \A a \in db'.applications :
                    a.user_id # u /\ a.job_id \notin OwnedJobs(db, u)
              /\ \A r \in db'.ratings :
                    /\ r.rater_id # u
                    /\ ~(r.target_type = "user" /\ r.target_id = u)
                    /\ ~(r.target_type = "job" /\ r.target_id \in OwnedJobs(db, u))]_vars

\* delete_user has returned after removing three rows, and what is left references nothing
C4_Witness ==
    /\ ret.op = "delete_user"
    /\ ret.raised = ""
    /\ ret.wrote = 3
    /\ db.jobs = {} /\ db.applications = {} /\ db.ratings = {}

UpdatableCols == {"title", "description", "location_text", "lat", "lng", "salary", "tags"}

\* the values the caller edits with: among them the empty string and zero
NewValue ==
    [c \in UpdatableCols |->
        CASE c = "title" -> ""
          [] c = "description" -> "d2"
          [] c = "location_text" -> ""
          [] c = "lat" -> "0.0"
          [] c = "lng" -> "2.5"
          [] c = "salary" -> "s2"
          [] c = "tags" -> ""]

\* every way of supplying at most MaxSupplied of the optional fields and leaving the
\* others None
UpdateArgs ==
    {[c \in UpdatableCols |-> IF c \in S THEN Some(NewValue[c]) ELSE None] :
        S \in {T \in SUBSET UpdatableCols : Cardinality(T) <= MaxSupplied}}

JobsDb ==
    [EmptyDb EXCEPT
        !.users = {UserRow(1, "a@b.com", "h1", "employer", None, None, None, 0, isoformat(0))},
        !.jobs = {JobRow(1, 1, Some("t1"), Some("d1"), None, None, None, Some(""), None,
                         isoformat(0)),
                  JobRow(2, 1, Some(NewValue["title"]), Some(NewValue["description"]),
                         Some(NewValue["location_text"]), Some(NewValue["lat"]),
                         Some(NewValue["lng"]), Some(NewValue["salary"]),
                         Some(NewValue["tags"]), isoformat(1))},
        !.seq = [t \in Tables |-> CASE t = "users" -> 1 [] t = "jobs" -> 2 [] OTHER -> 0]]

InitJobs == InitWith("deployed", FullSchema, JobsDb)

\* the ids update_job is called with: the two postings
EditedIds == {1, 2}

NextJobs ==
    \E j \in EditedIds, a \in UpdateArgs :
        update_job(j, a["title"], a["description"], a["location_text"], a["lat"], a["lng"],
                   a["salary"], a["tags"])

SpecJobs == InitJobs /\ [][NextJobs]_vars

\* C8: update_job on an existing posting rewrites exactly the supplied (non-None) fields
\* to the supplied values and leaves every other field of the posting and every other
\* row unchanged; with no field supplied it changes nothing; either way it returns the
\* posting's current row.
C8_SparseJobUpdate ==
    [][\A j \in EditedIds, a \in UpdateArgs :
          (/\ update_job(j, a["title"], a["description"], a["location_text"], a["lat"],
                         a["lng"], a["salary"], a["tags"])
           /\ \E x \in db.jobs : x.id = j)
          => LET old == CHOOSE x \in db.jobs : x.id = j
                 new == [c \in DOMAIN old |->
                            IF c \in UpdatableCols /\ a[c] # None THEN a[c] ELSE old[c]]
             IN /\ ret'.raised = ""
                /\ db' = [db EXCEPT !.jobs = (@ \ {old}) \cup {new}]
                /\ ret'.val = Some(new)
                /\ (\A c \in UpdatableCols : a[c] = None) => (db' = db /\ ret'.val = Some(old))]_vars

\* update_job has rewritten the title of the first posting to the empty string and left
\* its description as it was created
C8_Witness ==
    /\ ret.op = "update_job"
    /\ ret.raised = ""
    /\ ret.wrote = 2
    /\ ret.val # None
    /\ ret.val[1].id = 1
    /\ ret.val[1].title = Some("")
    /\ ret.val[1].description = Some("d1")

(***************************************************************************)
(* SpecConsume: two processes redeeming tokens on a deployed store, their  *)
(* statements interleaved as the engine allows.                            *)
(***************************************************************************)
NextConsume ==
    \/ \E e \in Emails, pu \in Purposes, ttl \in TTLs : create_token(e, pu, ttl)
    \/ \E p \in Procs, t \in TokenValues, pu \in Purposes : consume_token_select(p, t, pu)
    \/ \E p \in Procs : consume_token_delete(p)
    \/ \E p \in Procs : consume_token_commit(p)
    \/ connection_dealloc
    \/ Tick

SpecConsume == InitTokens /\ [][NextConsume]_vars

\* C2: of the consume_token calls that processes run on one token at the same time, at
\* most one returns the email.
C2_AtMostOneWinner == \A t \in TokenValues : yielded[t] <= 1

(***************************************************************************)
(* SpecCascade: two processes deleting users and postings statement by     *)
(* statement on a deployed store, while readers fetch rows and processes   *)
(* die inside their calls.  The store holds an employer with a posting, a  *)
(* candidate who applied to it and rated it, and the employer's rating of  *)
(* the candidate.                                                          *)
(***************************************************************************)
CascadeDb ==
    [EmptyDb EXCEPT
        !.users = {UserRow(1, "a@b.com", "h1", "employer", None, None, None, 0, isoformat(0)),
                   UserRow(2, "c@d.com", "h1", "candidate", None, None, None, 0, isoformat(0))},
        !.jobs = {JobRow(1, 1, Some("t1"), Some("d1"), None, None, None, Some(""), None,
                         isoformat(0))},
        !.applications = {ApplicationRow(1, 1, 2, "", "", None, None, isoformat(0))},
        !.ratings = {RatingRow(1, "job", 1, 2, 5, None, isoformat(0)),
                     RatingRow(2, "user", 2, 1, 4, None, isoformat(0))},
        !.seq = [t \in Tables |-> CASE t \in {"users", "ratings"} -> 2
                                    [] t \in {"jobs", "applications"} -> 1
                                    [] OTHER -> 0]]

InitCascade == InitWith("deployed", FullSchema, CascadeDb)

NextCascade ==
    \/ \E p \in Procs, u \in Named : delete_user_begin(p, u)
    \/ \E p \in Procs : delete_user_step(p)
    \/ \E p \in Procs : delete_user_commit(p)
    \/ \E p \in Procs, j \in Named : delete_job_begin(p, j)
    \/ \E p \in Procs : delete_job_step(p)
    \/ \E p \in Procs : delete_job_commit(p)
    \/ \E p \in Procs : Crash(p)
    \/ \E u \in Named : get_user_by_id(u)
    \/ \E j \in Named : get_job_by_id(j)
    \/ connection_dealloc

SpecCascade == InitCascade /\ [][NextCascade]_vars

\* C7: the file that readers see, and that a crash leaves, changes only by the whole
\* cascade of one delete_user or delete_job call at once: never by some of its deletions.
C7_AtomicCascade ==
    [][\/ db' = db
       \/ \E u \in Named : db' = DeleteUserStatements(db, u)
       \/ \E j \in Named : db' = DeleteJobStatements(db, j)]_vars

\* a reader was handed the employer's row while a delete_user of the employer, all its
\* DELETEs executed, had yet to commit
C7_Witness ==
    \E p \in Procs :
        /\ proc[p].op = "delete_user"
        /\ proc[p].args = <<1>>
        /\ proc[p].pc = "commit"
        /\ wlock = p
        /\ pending.users # db.users
        /\ pending.jobs # db.jobs
        /\ ret.op = "get_user_by_id"
        /\ ret.val # None
        /\ ret.val[1].id = 1

====
